---- MODULE Spec2Model ----
(***************************************************************************)
(* Content script of the AI Slop Feed Detector (src/background.js, lines   *)
(* 196-451): the feed watcher, the post extractor (processTweets), the     *)
(* analysis queue with its consumer loop (processQueue), the dedup cache   *)
(* (analyzedPosts) and the badge renderer.                                 *)
(*                                                                         *)
(* One action is one run of the JavaScript event loop: a handler runs from *)
(* its start, or from the await it was suspended on, to its next await.    *)
(* Times are in milliseconds.                                              *)
(***************************************************************************)
EXTENDS Integers, Sequences, FiniteSets, TLC

\* ------------------------------------------------------------------ bounds
\* Number of post elements (article[data-testid="tweet"]) the page creates.
MaxElems == 3

Elems == 1..MaxElems

\* Number of analyzePost messages the background worker handles at a time
\* (one consumer loop per tab).
MaxHandlers == 2

Handlers == 1..MaxHandlers

\* Number of analyzePost messages the senders issue in all.
MaxRequests == 3

\* --------------------------------------------------------- program constants
MIN_TEXT_LENGTH == 20
INTER_ITEM_DELAY == 100
DEBOUNCE_DELAY == 200
MIN_REQUEST_INTERVAL == 1000

\* No timer scheduled (observeFeed.timeout unset or already run).
NoTimer == -1

\* ------------------------------------------------------------------- texts
\* innerText values, as sequences of UTF-16 code units.
Rep(c, n) == [i \in 1..n |-> c]

\* "Aa" followed by eighteen "x": 20 code units.
TextAa == <<65, 97>> \o Rep(120, 18)
\* twenty-one "y"
TextY == Rep(121, 21)
\* " " + nineteen "z" + "\n": 21 code units, 19 after trim()
TextPadded == <<32>> \o Rep(122, 19) \o <<10>>

\* What tweet.querySelector('[data-testid="tweetText"]') finds in an element:
\* no text node at all, or a text node with its innerText.
NoTextNode == [node |-> FALSE, innerText |-> <<>>]
TextNode(t) == [node |-> TRUE, innerText |-> t]

Contents == {NoTextNode, TextNode(TextPadded), TextNode(TextAa), TextNode(TextY)}

\* The pages the model looks at: what the elements hold, in document order,
\* each pattern repeated as far as there are elements.
Patterns ==
  {<<TextNode(TextAa), TextNode(TextY), TextNode(TextAa), NoTextNode>>,
   <<NoTextNode, TextNode(TextPadded), TextNode(TextY), TextNode(TextAa)>>}

Page(p) == [e \in Elems |-> p[((e - 1) % Len(p)) + 1]]

Pages == {Page(p) : p \in Patterns}

\* String.prototype.trim(): strips white space at both ends.
IsWhiteSpace(c) == c \in {9, 10, 11, 12, 13, 32, 160}

RECURSIVE TrimStart(_)
TrimStart(s) ==
  IF s # <<>> /\ IsWhiteSpace(Head(s)) THEN TrimStart(Tail(s)) ELSE s

RECURSIVE TrimEnd(_)
TrimEnd(s) ==
  IF s # <<>> /\ IsWhiteSpace(s[Len(s)]) THEN TrimEnd(SubSeq(s, 1, Len(s) - 1)) ELSE s

Trim(s) == TrimEnd(TrimStart(s))

\* ------------------------------------------------------------- hashString
\* A 32-bit integer is kept as two 16-bit halves [hi, lo] (two's complement).
Half == 65536

\* hash = ((hash << 5) - hash) + char;  hash = hash & hash
\* i.e. (31 * hash + char) wrapped to 32 bits.
HashStep(h, char) ==
  LET low == 31 * h.lo + char
      high == 31 * h.hi + (low \div Half)
  IN  [hi |-> high % Half, lo |-> low % Half]

RECURSIVE HashFold(_, _, _)
HashFold(h, str, i) ==
  IF i > Len(str) THEN h ELSE HashFold(HashStep(h, str[i]), str, i + 1)

\* Magnitude of a two's-complement 32-bit value, again as two halves.
Negative(h) == h.hi >= 32768

Magnitude(h) ==
  IF ~Negative(h) THEN h
  ELSE LET low == (Half - 1 - h.lo) + 1
           high == (Half - 1 - h.hi) + (low \div Half)
       IN  [hi |-> high % Half, lo |-> low % Half]

\* Number.prototype.toString(36): the digits, most significant first.
RECURSIVE Digits36(_)
Digits36(m) ==
  IF m.hi = 0 /\ m.lo < 36 THEN <<m.lo>>
  ELSE LET t == (m.hi % 36) * Half + m.lo
       IN  Digits36([hi |-> m.hi \div 36, lo |-> t \div 36]) \o <<t % 36>>

ToString36(h) == [neg |-> Negative(h), digits |-> Digits36(Magnitude(h))]

hashString(str) == ToString36(HashFold([hi |-> 0, lo |-> 0], str, 1))

\* hashString over the texts of the model, computed once.
PostIds == [t \in {Trim(c.innerText) : c \in Contents} |-> hashString(t)]

\* ----------------------------------------------------------------- results
\* ['low', 'medium', 'high', 'certain'] (keys of BADGE_COLORS / BADGE_LABELS)
Likelihoods == {"low", "medium", "high", "certain"}

\* What chrome.runtime.sendMessage({action: 'analyzePost'}) can settle to:
\* a classification result, an error result, or a rejection.
\* The answers the classifier gives in the model.
ReturnedLikelihoods == {"low", "certain"}

Results == [likelihood : ReturnedLikelihoods, reason : {"reason"}]
ErrorResults == {[error |-> "API error"]}
Responses ==
  [settled : {"resolve"}, value : Results \cup ErrorResults]
    \cup {[settled |-> "reject", value |-> [error |-> "thrown"]]}

HasError(value) == "error" \in DOMAIN value

\* -------------------------------------------------------------------- state
VARIABLES
  content,            \* element -> what its text node holds
  inDoc,              \* element -> document.contains(element)
  tag,                \* element -> tweet.dataset.slopAnalyzed ("" when unset)
  badge,              \* element -> "none", "loading" or the likelihood shown
  analyzedPosts,      \* the dedup cache: postId -> result
  analysisQueue,      \* sequence of work items {tweet, text, postId}
  isProcessingQueue,  \* the guard flag of processQueue
  loops,              \* the suspended activations of processQueue
  timeout,            \* observeFeed.timeout: ms left, or NoTimer
  orphans,            \* scan timers still pending that observeFeed.timeout
                      \* no longer refers to: ms left of each
  tooltips,           \* element -> tooltips of its badges in document.body
  stale,              \* element -> badges under it besides the newest one
  \* history
  tagLog,             \* element -> every value assigned to its tag, in order
  pushed,             \* element -> number of work items pushed for it
  sent,               \* element -> number of requests sent for it
  deqLog,             \* the work items shifted so far, by push number
  lookedUp,           \* elements for which analyzedPosts.has() was called
  wrote,              \* elements whose work item executed analyzedPosts.set()
  rendered,           \* elements a badge was ever created for
  failed,             \* elements whose request gave an error result or threw
  sinceDone,          \* ms since the loop last handled a response (saturating)
  sinceAdd,           \* ms since the observer last saw added nodes (saturating)
  \* the background worker
  storage,            \* chrome.storage.local: key -> value, for the keys set
  handlers,           \* handler -> the activation of handleAnalyzePost in it
  sinceRequest,       \* Date.now() - lastRequestTime, in ms (saturating)
  \* history
  arrived,            \* number of analyzePost messages received so far
  returned            \* label -> number of results returned with that label

vars ==
  <<content, inDoc, tag, badge, analyzedPosts, analysisQueue,
    isProcessingQueue, loops, timeout, orphans, tooltips, stale, tagLog,
    pushed, sent, deqLog, lookedUp, wrote, rendered, failed, sinceDone,
    sinceAdd, storage, handlers, sinceRequest, arrived, returned>>

\* The variables of the background worker, and those of the page.
workerVars == <<storage, handlers, sinceRequest, arrived, returned>>

pageVars ==
  <<content, inDoc, tag, badge, analyzedPosts, analysisQueue,
    isProcessingQueue, loops, timeout, orphans, tooltips, stale, tagLog,
    pushed, sent, deqLog, lookedUp, wrote, rendered, failed, sinceDone,
    sinceAdd>>

\* The part of the state that processTweets and processQueue work on.
St ==
  [tag |-> tag, badge |-> badge, analyzedPosts |-> analyzedPosts,
   analysisQueue |-> analysisQueue, isProcessingQueue |-> isProcessingQueue,
   loops |-> loops, timeout |-> timeout, orphans |-> orphans,
   tooltips |-> tooltips, stale |-> stale, tagLog |-> tagLog,
   pushed |-> pushed, sent |-> sent, deqLog |-> deqLog,
   lookedUp |-> lookedUp, wrote |-> wrote, rendered |-> rendered,
   failed |-> failed,
   sinceDone |-> sinceDone, sinceAdd |-> sinceAdd]

Commit(s) ==
  /\ tag' = s.tag
  /\ badge' = s.badge
  /\ analyzedPosts' = s.analyzedPosts
  /\ analysisQueue' = s.analysisQueue
  /\ isProcessingQueue' = s.isProcessingQueue
  /\ loops' = s.loops
  /\ timeout' = s.timeout
  /\ orphans' = s.orphans
  /\ tooltips' = s.tooltips
  /\ stale' = s.stale
  /\ tagLog' = s.tagLog
  /\ pushed' = s.pushed
  /\ sent' = s.sent
  /\ deqLog' = s.deqLog
  /\ lookedUp' = s.lookedUp
  /\ wrote' = s.wrote
  /\ rendered' = s.rendered
  /\ failed' = s.failed
  /\ sinceDone' = s.sinceDone
  /\ sinceAdd' = s.sinceAdd

\* An activation slot with no message in it.
Idle ==
  [pc |-> "idle", got |-> <<>>, timer |-> NoTimer, result |-> <<>>, from |-> 0]

Init ==
  /\ storage = <<>>
  /\ handlers = [h \in Handlers |-> Idle]
  /\ sinceRequest = MIN_REQUEST_INTERVAL
  /\ arrived = 0
  /\ returned = [l \in Likelihoods |-> 0]
  /\ content \in Pages
  /\ inDoc = [e \in Elems |-> FALSE]
  /\ tag = [e \in Elems |-> ""]
  /\ badge = [e \in Elems |-> "none"]
  /\ analyzedPosts = <<>>
  /\ analysisQueue = <<>>
  /\ isProcessingQueue = FALSE
  /\ loops = <<>>
  /\ timeout = NoTimer
  /\ orphans = <<>>
  /\ tooltips = [e \in Elems |-> 0]
  /\ stale = [e \in Elems |-> 0]
  /\ tagLog = [e \in Elems |-> <<>>]
  /\ pushed = [e \in Elems |-> 0]
  /\ sent = [e \in Elems |-> 0]
  /\ deqLog = <<>>
  /\ lookedUp = {}
  /\ wrote = {}
  /\ rendered = {}
  /\ failed = {}
  /\ sinceDone = INTER_ITEM_DELAY
  /\ sinceAdd = DEBOUNCE_DELAY

\* ------------------------------------------------------------- feed watcher
\* The MutationObserver callback: a record with added nodes restarts the
\* debounce timer, any other record leaves it alone.
ObserverCallback(tm, addedNodes) ==
  IF addedNodes > 0 THEN DEBOUNCE_DELAY ELSE tm

\* (variant: the pending timer is not cancelled)
clearTimeoutNoop(tm) == IF tm = NoTimer THEN <<>> ELSE <<tm>>

\* clearTimeout(observeFeed.timeout): the timers that stay pending after the
\* call. The timer is cancelled, so none does.
clearTimeout(tm) == <<>>

\* The timers the callback leaves pending without a reference to them.
Superseded(tm, addedNodes) ==
  IF addedNodes > 0 THEN clearTimeout(tm) ELSE <<>>

\* The observer is handed the records of one DOM change of the script itself.
Observe(s, addedNodes) ==
  [s EXCEPT !.timeout = ObserverCallback(@, addedNodes),
            !.orphans = @ \o Superseded(s.timeout, addedNodes),
            !.sinceAdd = IF addedNodes > 0 THEN 0 ELSE @]

\* --------------------------------------------------------------- the badges
\* (variant: the existing badge is left in place)
removeBadgeNoop(s, e) == s

\* The badge found under the tweet goes, and with a result badge its tooltip.
removeBadge(s, e) ==
  IF s.badge[e] = "none" THEN s
  ELSE [s EXCEPT !.badge[e] = "none",
                 !.tooltips[e] = IF s.badge[e] = "loading" \/ @ = 0
                                 THEN @ ELSE @ - 1]

\* The new badge goes under the tweet, next to whatever is still there.
AddBadge(s, e, b) ==
  [s EXCEPT !.badge[e] = b,
            !.stale[e] = IF s.badge[e] = "none" THEN @ ELSE @ + 1,
            !.rendered = @ \cup {e}]

\* The badge is inserted under the tweet: the observer sees it only while the
\* tweet is in the document.
injectLoadingBadge(s, e) ==
  Observe(AddBadge(removeBadge(s, e), e, "loading"),
          IF inDoc[e] THEN 1 ELSE 0)

\* The tooltip is appended to document.body, the badge under the tweet.
injectBadge(s, e, result) ==
  LET r == AddBadge(removeBadge(s, e), e, result.likelihood)
  IN  Observe([r EXCEPT !.tooltips[e] = @ + 1],
              IF inDoc[e] THEN 2 ELSE 1)

SetTag(s, e, t) ==
  [s EXCEPT !.tag[e] = t, !.tagLog[e] = Append(@, t)]

\* ---------------------------------------------------------- the dedup cache
\* (variant: the lookup never finds the key)
MapHasNever(m, k) == FALSE

MapHas(m, k) == k \in DOMAIN m
MapSet(m, k, v) == [x \in DOMAIN m \cup {k} |-> IF x = k THEN v ELSE m[x]]

\* ------------------------------------------------------- the analysis queue
\* (variant: pop() in place of shift())
ShiftLast(q) == [item |-> q[Len(q)], rest |-> SubSeq(q, 1, Len(q) - 1)]

\* analysisQueue.shift(): the item taken and the queue left.
Shift(q) == [item |-> Head(q), rest |-> Tail(q)]

RemoveAt(seq, k) == SubSeq(seq, 1, k - 1) \o SubSeq(seq, k + 1, Len(seq))

\* (variant: the guard without the isProcessingQueue test)
QueueGuardNoFlag(s) == Len(s.analysisQueue) = 0

\* processQueue's guard: a loop is running already, or nothing is queued.
QueueGuard(s) == s.isProcessingQueue \/ Len(s.analysisQueue) = 0

\* An activation of processQueue suspended on its sendMessage await.
AwaitingResponse(item) == [pc |-> "sendMessage", item |-> item, timer |-> NoTimer]

\* An activation suspended on the inter-item setTimeout.
AwaitingDelay == [pc |-> "delay", timer |-> INTER_ITEM_DELAY]

\* (variant: no check for removed tweets)
DetachedNever(e) == FALSE

\* !document.contains(tweet)
Detached(e) == ~inDoc[e]

\* The while loop of activation k, from its condition to its next await
\* (or to its end, when the queue is empty).
RECURSIVE RunLoop(_, _)
RunLoop(s, k) ==
  IF Len(s.analysisQueue) = 0
  THEN [s EXCEPT !.isProcessingQueue = FALSE, !.loops = RemoveAt(@, k)]
  ELSE LET sh == Shift(s.analysisQueue)
           e == sh.item.tweet
           s1 == [s EXCEPT !.analysisQueue = sh.rest,
                           !.deqLog = Append(@, sh.item.seq)]
       IN  IF Detached(e)
           THEN RunLoop(s1, k)
           ELSE LET s2 == injectLoadingBadge(s1, e)
                IN  [s2 EXCEPT !.loops[k] = AwaitingResponse(sh.item),
                               !.sent[e] = @ + 1]

\* processQueue(), called from processTweets: runs to its first await.
processQueue(s) ==
  IF QueueGuard(s) THEN s
  ELSE RunLoop([s EXCEPT !.isProcessingQueue = TRUE,
                         !.loops = Append(@, AwaitingDelay)],
               Len(s.loops) + 1)

\* (variant: the loading badge is left in place)
FailItemKeepsBadge(s, e) == SetTag(s, e, "error")

\* (variant: the tag is left at 'pending')
FailItemKeepsTag(s, e) == removeBadge(s, e)

\* What the loop does with a resolved value that carries an error, or with a
\* rejection: the badge goes, the tag becomes 'error'.
FailItem(s, e) == SetTag(removeBadge(s, e), e, "error")

\* (variant: `return` in place of `continue`)
AfterErrorResultReturns(s, k) == [s EXCEPT !.loops = RemoveAt(@, k)]

\* After an error result: `continue`.
AfterErrorResult(s, k) == RunLoop(s, k)

\* After a rejection the catch block falls through to the delay.
AfterThrow(s, k) == [s EXCEPT !.loops[k] = AwaitingDelay]

\* The loop from the point where sendMessage settles to its next await.
Resume(s, k, resp) ==
  LET item == s.loops[k].item
      e == item.tweet
      s0 == [s EXCEPT !.sinceDone = 0]
  IN  IF resp.settled = "reject"
      THEN AfterThrow(FailItem([s0 EXCEPT !.failed = @ \cup {e}], e), k)
      ELSE IF HasError(resp.value)
      THEN AfterErrorResult(FailItem([s0 EXCEPT !.failed = @ \cup {e}], e), k)
      ELSE LET s1 == [s0 EXCEPT !.analyzedPosts = MapSet(@, item.postId, resp.value),
                                !.wrote = @ \cup {e}]
               s2 == SetTag(injectBadge(s1, e, resp.value), e, "complete")
           IN  [s2 EXCEPT !.loops[k] = AwaitingDelay]

\* ------------------------------------------------------- the post extractor
\* The work item { tweet, text, postId }; seq is its push number (history).
WorkItem(s, e, text, postId) ==
  [tweet |-> e, text |-> text, postId |-> postId,
   seq |-> Len(s.deqLog) + Len(s.analysisQueue) + 1]

\* (variant: no already-processed check)
AlreadyTaggedNever(s, e) == FALSE

\* (variant: only a terminal tag counts as processed)
AlreadyTerminal(s, e) == s.tag[e] \notin {"", "pending"}

\* The already-processed check at the head of the scan loop.
AlreadyTagged(s, e) == s.tag[e] # ""

\* (variant: the threshold off by one)
TooShortBelow19(text) == Len(text) < MIN_TEXT_LENGTH - 1

\* text.length < 20
TooShort(text) == Len(text) < MIN_TEXT_LENGTH

\* The body of the for loop of processTweets for one element.
ScanOne(s, e) ==
  IF AlreadyTagged(s, e) THEN s
  ELSE LET s1 == SetTag(s, e, "pending")
       IN  IF ~content[e].node THEN SetTag(s1, e, "no-text")
           ELSE LET text == Trim(content[e].innerText)
                IN  IF TooShort(text) THEN SetTag(s1, e, "too-short")
                    ELSE LET postId == PostIds[text]
                             s2 == [s1 EXCEPT !.lookedUp = @ \cup {e}]
                         IN  IF MapHas(s2.analyzedPosts, postId)
                             THEN SetTag(injectBadge(s2, e, s2.analyzedPosts[postId]),
                                         e, "cached")
                             ELSE processQueue(
                                    [s2 EXCEPT
                                       !.analysisQueue =
                                          Append(@, WorkItem(s2, e, text, postId)),
                                       !.pushed[e] = @ + 1])

\* document.querySelectorAll returns the elements in document order.
RECURSIVE ScanFrom(_, _)
ScanFrom(s, e) ==
  IF e > MaxElems THEN s
  ELSE ScanFrom(IF inDoc[e] THEN ScanOne(s, e) ELSE s, e + 1)

processTweets(s) == ScanFrom(s, 1)

\* ------------------------------------------------------------------ actions
\* The page adds a post element to the document (a new one, or one it had
\* taken out); the observer sees a record with an added node.
Insert(e) ==
  /\ ~inDoc[e]
  /\ inDoc' = [inDoc EXCEPT ![e] = TRUE]
  /\ timeout' = ObserverCallback(timeout, 1)
  /\ orphans' = orphans \o Superseded(timeout, 1)
  /\ sinceAdd' = 0
  /\ UNCHANGED <<content, tag, badge, analyzedPosts, analysisQueue,
                 isProcessingQueue, loops, tooltips, stale, tagLog, pushed,
                 sent, deqLog, lookedUp, wrote, rendered, failed, sinceDone>>
  /\ UNCHANGED workerVars

\* The page removes a post element; the record has no added nodes.
Remove(e) ==
  /\ inDoc[e]
  /\ inDoc' = [inDoc EXCEPT ![e] = FALSE]
  /\ timeout' = ObserverCallback(timeout, 0)
  /\ orphans' = orphans \o Superseded(timeout, 0)
  /\ UNCHANGED <<content, tag, badge, analyzedPosts, analysisQueue,
                 isProcessingQueue, loops, tooltips, stale, tagLog, pushed,
                 sent, deqLog, lookedUp, wrote, rendered, failed, sinceDone,
                 sinceAdd>>
  /\ UNCHANGED workerVars

\* A pending scan timer runs out: setTimeout calls processTweets. Timer 0 is
\* the one observeFeed.timeout refers to.
Scan ==
  /\ \E i \in 0..Len(orphans) :
       /\ (IF i = 0 THEN timeout ELSE orphans[i]) = 0
       /\ \E s \in {processTweets(IF i = 0
                                   THEN [St EXCEPT !.timeout = NoTimer]
                                   ELSE [St EXCEPT !.orphans = RemoveAt(@, i)])} :
            Commit(s)
  /\ UNCHANGED <<content, inDoc>>
  /\ UNCHANGED workerVars

\* sendMessage settles for activation k and the loop runs to its next await.
Receive(k, resp) ==
  /\ k \in 1..Len(loops)
  /\ loops[k].pc = "sendMessage"
  /\ \E s \in {Resume(St, k, resp)} : Commit(s)
  /\ UNCHANGED <<content, inDoc>>
  /\ UNCHANGED workerVars

\* The inter-item delay of activation k runs out; the loop goes round.
DelayDone(k) ==
  /\ k \in 1..Len(loops)
  /\ loops[k].pc = "delay"
  /\ loops[k].timer = 0
  /\ \E s \in {RunLoop(St, k)} : Commit(s)
  /\ UNCHANGED <<content, inDoc>>
  /\ UNCHANGED workerVars

\* ----------------------------------------------------- the settings store
\* chrome.storage.local.get(keys): the stored items among the keys asked for.
StorageGet(st, keys) == [k \in DOMAIN st \cap keys |-> st[k]]

\* chrome.storage.local.set(items): the items given replace the stored ones.
StorageSet(st, items) ==
  [k \in DOMAIN st \cup DOMAIN items |->
     IF k \in DOMAIN items THEN items[k] ELSE st[k]]

\* What the popup sends when the switch is flipped (toggleEnabled).
SwitchSaved == [enabled : BOOLEAN]

\* What the popup sends with saveSettings: the switch alone, or the key
\* field (trimmed; empty, or starting with 'sk-') together with the switch.
SettingsSaved ==
  SwitchSaved \cup [apiKey : {"", "sk-key"}, enabled : BOOLEAN]

\* getSettings(), from the object storage.get resolved with.
getSettings(result) ==
  [apiKey |-> IF "apiKey" \in DOMAIN result THEN result.apiKey ELSE "",
   enabled |-> ~("enabled" \in DOMAIN result /\ result.enabled = FALSE)]

ZeroStats == [totalAnalyzed |-> 0, low |-> 0, medium |-> 0, high |-> 0, certain |-> 0]

\* getStats(), from the object storage.get resolved with.
getStats(result) == IF "stats" \in DOMAIN result THEN result.stats ELSE ZeroStats

\* updateStats between its two awaits: the two increments.
Incremented(stats, likelihood) ==
  [k \in DOMAIN stats |->
     IF k = "totalAnalyzed" \/ k = likelihood THEN stats[k] + 1 ELSE stats[k]]

\* ---------------------------------------------------- the background worker
\* (variant: the key is tested before the switch)
ConfigErrorKeyFirst(settings) ==
  IF settings.apiKey = "" THEN "No API key configured"
  ELSE IF ~settings.enabled THEN "Extension disabled"
  ELSE ""

\* The two configuration tests of handleAnalyzePost: the message of the error
\* returned, "" when both pass.
ConfigError(settings) ==
  IF ~settings.enabled THEN "Extension disabled"
  ELSE IF settings.apiKey = "" THEN "No API key configured"
  ELSE ""

\* What analyzeWithOpenAI settles with: a validated result, or a throw.
ClientOutcomes == Results \cup ErrorResults

\* The handler returns: sendResponse is called with the value.
Return(hd, value) ==
  [hd EXCEPT !.pc = "done", !.got = <<>>, !.timer = NoTimer, !.result = value]

\* A message {action: 'analyzePost'} reaches the listener in slot h, sent by
\* `from` (1: the page of this model, 0: another tab). handleAnalyzePost runs
\* to the await in getSettings; storage.get reads the store. Slots are
\* interchangeable: the message takes the first free one.
Listen(h, from) ==
  /\ handlers[h].pc = "idle"
  /\ \A g \in Handlers : g < h => handlers[g].pc # "idle"
  /\ arrived < MaxRequests
  /\ handlers' = [handlers EXCEPT ![h] =
                    [Idle EXCEPT !.pc = "getSettings", !.from = from,
                                 !.got = StorageGet(storage, {"apiKey", "enabled"})]]
  /\ arrived' = arrived + 1
  /\ UNCHANGED <<storage, sinceRequest, returned>>

Arrive(h) ==
  /\ Listen(h, 0)
  /\ UNCHANGED pageVars

\* lastRequestTime = Date.now(), then analyzeWithOpenAI runs to its fetch.
StartRequest(hd) == [hd EXCEPT !.pc = "fetch", !.got = <<>>, !.timer = NoTimer]

\* getSettings resolves: the configuration tests and the rate limit test.
SettingsRead(h) ==
  /\ handlers[h].pc = "getSettings"
  /\ LET settings == getSettings(handlers[h].got)
         error == ConfigError(settings)
     IN  IF error # ""
         THEN /\ handlers' = [handlers EXCEPT ![h] = Return(@, [error |-> error])]
              /\ UNCHANGED sinceRequest
         ELSE IF sinceRequest < MIN_REQUEST_INTERVAL
         THEN /\ handlers' = [handlers EXCEPT ![h] =
                                [@ EXCEPT !.pc = "wait", !.got = <<>>,
                                          !.timer = MIN_REQUEST_INTERVAL - sinceRequest]]
              /\ UNCHANGED sinceRequest
         ELSE /\ handlers' = [handlers EXCEPT ![h] = StartRequest(@)]
              /\ sinceRequest' = 0
  /\ UNCHANGED <<storage, arrived, returned>>
  /\ UNCHANGED pageVars

\* The rate-limit wait is over.
WaitDone(h) ==
  /\ handlers[h].pc = "wait"
  /\ handlers[h].timer = 0
  /\ handlers' = [handlers EXCEPT ![h] = StartRequest(@)]
  /\ sinceRequest' = 0
  /\ UNCHANGED <<storage, arrived, returned>>
  /\ UNCHANGED pageVars

\* analyzeWithOpenAI settles. A throw is caught and returned as an error; a
\* result takes updateStats to the await in getStats, which reads the store.
FetchDone(h, outcome) ==
  /\ handlers[h].pc = "fetch"
  /\ handlers' = [handlers EXCEPT ![h] =
                    IF HasError(outcome) THEN Return(@, outcome)
                    ELSE [@ EXCEPT !.pc = "getStats", !.result = outcome,
                                   !.got = StorageGet(storage, {"stats"})]]
  /\ UNCHANGED <<storage, sinceRequest, arrived, returned>>
  /\ UNCHANGED pageVars

\* getStats resolves: updateStats increments and calls storage.set.
StatsRead(h) ==
  /\ handlers[h].pc = "getStats"
  /\ storage' = StorageSet(storage,
                  [stats |-> Incremented(getStats(handlers[h].got),
                                         handlers[h].result.likelihood)])
  /\ handlers' = [handlers EXCEPT ![h] = [@ EXCEPT !.pc = "set", !.got = <<>>]]
  /\ UNCHANGED <<sinceRequest, arrived, returned>>
  /\ UNCHANGED pageVars

\* storage.set resolves: handleAnalyzePost returns the result.
StatsWritten(h) ==
  /\ handlers[h].pc = "set"
  /\ handlers' = [handlers EXCEPT ![h] = Return(@, @.result)]
  /\ returned' = [returned EXCEPT ![handlers[h].result.likelihood] = @ + 1]
  /\ UNCHANGED <<storage, sinceRequest, arrived>>
  /\ UNCHANGED pageVars

\* The response reaches the tab that sent the message.
Reply(h) ==
  /\ handlers[h].pc = "done"
  /\ handlers[h].from = 0
  /\ handlers' = [handlers EXCEPT ![h] = Idle]
  /\ UNCHANGED <<storage, sinceRequest, arrived, returned>>
  /\ UNCHANGED pageVars

\* The message processQueue sent for the item of activation k reaches the
\* listener: the page's request is handled in slot h.
Dispatch(k, h) ==
  /\ k \in 1..Len(loops)
  /\ loops[k].pc = "sendMessage"
  /\ \A g \in Handlers : handlers[g].from # 1
  /\ Listen(h, 1)
  /\ UNCHANGED pageVars

\* The response of slot h reaches the page: sendMessage resolves with it and
\* the loop of activation k runs to its next await.
Deliver(k, h) ==
  /\ k \in 1..Len(loops)
  /\ loops[k].pc = "sendMessage"
  /\ handlers[h].pc = "done"
  /\ handlers[h].from = 1
  /\ \E s \in {Resume(St, k, [settled |-> "resolve",
                               value |-> handlers[h].result])} : Commit(s)
  /\ handlers' = [handlers EXCEPT ![h] = Idle]
  /\ UNCHANGED <<content, inDoc, storage, sinceRequest, arrived, returned>>

\* The popup's saveSettings message: saveSettings() stores what it is given.
SaveSettings(settings) ==
  /\ storage' = StorageSet(storage, settings)
  /\ UNCHANGED <<handlers, sinceRequest, arrived, returned>>
  /\ UNCHANGED pageVars

\* Time passes: d ms, up to the next moment a timer can run out.
Elapse(tm, d) == IF tm = NoTimer THEN NoTimer ELSE IF tm > d THEN tm - d ELSE 0

Saturate(x) == IF x > INTER_ITEM_DELAY THEN INTER_ITEM_DELAY ELSE x

SaturateAt(x, max) == IF x > max THEN max ELSE x

Waits ==
  {timeout} \cup {loops[k].timer : k \in 1..Len(loops)}
    \cup {orphans[k] : k \in 1..Len(orphans)}
    \cup {INTER_ITEM_DELAY - sinceDone}
    \cup {handlers[h].timer : h \in Handlers}
    \cup {MIN_REQUEST_INTERVAL - sinceRequest}

Tick(d) ==
  /\ d \in Waits
  /\ d > 0
  /\ timeout' = Elapse(timeout, d)
  /\ loops' = [k \in 1..Len(loops) |-> [loops[k] EXCEPT !.timer = Elapse(@, d)]]
  /\ orphans' = [k \in 1..Len(orphans) |-> Elapse(orphans[k], d)]
  /\ sinceDone' = Saturate(sinceDone + d)
  /\ sinceAdd' = SaturateAt(sinceAdd + d, DEBOUNCE_DELAY)
  /\ handlers' = [h \in Handlers |-> [handlers[h] EXCEPT !.timer = Elapse(@, d)]]
  /\ sinceRequest' = SaturateAt(sinceRequest + d, MIN_REQUEST_INTERVAL)
  /\ UNCHANGED <<content, inDoc, tag, badge, analyzedPosts, analysisQueue,
                 isProcessingQueue, tooltips, stale, tagLog, pushed, sent,
                 deqLog, lookedUp, wrote, rendered, failed, storage, arrived,
                 returned>>

Next ==
  \/ \E e \in Elems : Insert(e)
  \/ \E e \in Elems : Remove(e)
  \/ Scan
  \/ \E k \in 1..Len(loops), resp \in Responses : Receive(k, resp)
  \/ \E k \in 1..Len(loops) : DelayDone(k)
  \/ \E d \in Waits : Tick(d)

Spec == Init /\ [][Next]_vars

\* Every wait that has been started is eventually over and every request
\* settles (handleAnalyzePost always answers): timers run, time passes.
FairSpec ==
  /\ Spec
  /\ WF_vars(Scan)
  /\ WF_vars(\E k \in 1..Len(loops), resp \in Responses : Receive(k, resp))
  /\ WF_vars(\E k \in 1..Len(loops) : DelayDone(k))
  /\ WF_vars(\E d \in Waits : Tick(d))

\* The background worker alone, with messages from any number of tabs.
NextBg ==
  \/ \E h \in Handlers : Arrive(h)
  \/ \E h \in Handlers : SettingsRead(h)
  \/ \E h \in Handlers : WaitDone(h)
  \/ \E h \in Handlers, outcome \in ClientOutcomes : FetchDone(h, outcome)
  \/ \E h \in Handlers : StatsRead(h)
  \/ \E h \in Handlers : StatsWritten(h)
  \/ \E h \in Handlers : Reply(h)
  \/ \E settings \in SettingsSaved : SaveSettings(settings)
  \/ \E d \in Waits : Tick(d)

\* No page of this model takes part: which page it would be is immaterial.
InitBg == Init /\ content = Page(CHOOSE p \in Patterns : TRUE)

SpecBg == InitBg /\ [][NextBg]_vars

\* One page and the background worker together, on an installation where no
\* key has been entered and the user only flips the switch: the page's
\* requests are answered by handleAnalyzePost, which never gets as far as
\* the classification client.
NextPipe ==
  \/ \E e \in Elems : Insert(e)
  \/ \E e \in Elems : Remove(e)
  \/ Scan
  \/ \E k \in 1..Len(loops), h \in Handlers : Dispatch(k, h)
  \/ \E h \in Handlers : SettingsRead(h)
  \/ \E k \in 1..Len(loops), h \in Handlers : Deliver(k, h)
  \/ \E settings \in SwitchSaved : SaveSettings(settings)
  \/ \E d \in Waits : Tick(d)

SpecPipe == Init /\ [][NextPipe]_vars

\* ------------------------------------------------------------ vocabulary
TerminalTags == {"too-short", "no-text", "cached", "complete", "error"}

InQueue(e) == \E i \in 1..Len(analysisQueue) : analysisQueue[i].tweet = e

InFlight(e) ==
  \E k \in 1..Len(loops) : loops[k].pc = "sendMessage" /\ loops[k].item.tweet = e

\* The element's work item was shifted and dropped without a request.
Discarded(e) == pushed[e] > 0 /\ ~InQueue(e) /\ sent[e] = 0

LongText(e) ==
  content[e].node /\ Len(Trim(content[e].innerText)) >= MIN_TEXT_LENGTH

SameText(a, b) ==
  /\ LongText(a) /\ LongText(b)
  /\ Trim(content[a].innerText) = Trim(content[b].innerText)

RECURSIVE SumUpTo(_, _)
SumUpTo(f, n) == IF n = 0 THEN 0 ELSE f[n] + SumUpTo(f, n - 1)

TotalSent == SumUpTo(sent, MaxElems)

TypeOK ==
  /\ tag \in [Elems -> {"", "pending"} \cup TerminalTags]
  /\ badge \in [Elems -> {"none", "loading"} \cup Likelihoods]
  /\ isProcessingQueue \in BOOLEAN
  /\ timeout \in {NoTimer} \cup 0..DEBOUNCE_DELAY
  /\ sinceDone \in 0..INTER_ITEM_DELAY
  /\ sinceAdd \in 0..DEBOUNCE_DELAY
  /\ tooltips \in [Elems -> Nat]
  /\ stale \in [Elems -> Nat]
  /\ DOMAIN storage \subseteq {"apiKey", "enabled", "stats"}
  /\ \A h \in Handlers :
       /\ handlers[h].pc \in {"idle", "getSettings", "wait", "fetch",
                              "getStats", "set", "done"}
       /\ handlers[h].timer \in {NoTimer} \cup 0..MIN_REQUEST_INTERVAL
       /\ handlers[h].from \in {0, 1}
  /\ sinceRequest \in 0..MIN_REQUEST_INTERVAL
  /\ arrived \in 0..MaxRequests
  /\ returned \in [Likelihoods -> 0..MaxRequests]
  /\ \A k \in 1..Len(loops) : loops[k].pc \in {"sendMessage", "delay"}

\* ------------------------------------------------------------------ claims

\* C1: of two elements with identical extracted text only the first ever
\* produces a work item; the second is served from the dedup cache.
C1_OneWorkItemPerText ==
  \A a, b \in Elems :
    (a # b /\ SameText(a, b)) => ~(pushed[a] > 0 /\ pushed[b] > 0)

\* C2: at most one activation of the consumer loop is running and at most
\* one classification request of the queue is outstanding, however often
\* processQueue is called.
C2_SingleConsumer ==
  /\ Len(loops) <= 1
  /\ Cardinality({k \in 1..Len(loops) : loops[k].pc = "sendMessage"}) <= 1
  /\ Cardinality({e \in Elems : InFlight(e)}) <= 1

\* processQueue was called (an item was pushed) while the loop was suspended.
C2_Witness ==
  /\ Len(loops) = 1
  /\ loops[1].pc = "sendMessage"
  /\ Len(analysisQueue) > 0

\* C3: a request that is not the queue's first is sent only when at least
\* the inter-item delay has passed since the previous one was answered.
C3_DelayBetweenRequests ==
  [][(TotalSent' > TotalSent /\ TotalSent > 0)
       => sinceDone' >= INTER_ITEM_DELAY]_vars

\* C4: the queue is never non-empty without a running consumer loop, the
\* flag is set exactly while a loop runs, and again and again the queue is
\* empty with the flag back at false: every work item pushed is shifted.
C4_NoLostWakeup ==
  /\ [](Len(analysisQueue) > 0 => (isProcessingQueue /\ Len(loops) = 1))
  /\ [](isProcessingQueue <=> Len(loops) > 0)
  /\ []<>(Len(analysisQueue) = 0 /\ ~isProcessingQueue)

\* An item pushed while the loop was suspended has been shifted and the
\* loop has gone idle again.
C4_Witness ==
  /\ Len(deqLog) >= 2
  /\ Len(analysisQueue) = 0
  /\ ~isProcessingQueue
  /\ failed # {}

\* C5: work items are shifted in exactly the order they were pushed: the
\* n-th item shifted is the n-th item pushed, and the queue holds the items
\* not yet shifted in push order.
C5_Fifo ==
  /\ \A i \in 1..Len(deqLog) : deqLog[i] = i
  /\ \A i \in 1..Len(analysisQueue) : analysisQueue[i].seq = Len(deqLog) + i

\* Two items wait in the queue behind one that was shifted.
C5_Witness == Len(analysisQueue) >= 2 /\ Len(deqLog) >= 1

\* C6: a work item whose element is out of the document when it is shifted
\* is dropped: no request, no badge, no cache write.
C6_DiscardDetached ==
  [][\A e \in Elems :
       (InQueue(e) /\ ~InQueue(e)' /\ ~inDoc[e])
         => /\ sent'[e] = sent[e]
            /\ badge'[e] = badge[e]
            /\ (e \in rendered') = (e \in rendered)
            /\ analyzedPosts' = analyzedPosts
            /\ wrote' = wrote]_vars

\* A removed element's work item has been shifted and dropped.
C6_Witness ==
  \E e \in Elems : Discarded(e) /\ ~inDoc[e] /\ badge[e] = "none" /\ e \notin rendered

\* C7: an element whose classification failed is tagged error, carries no
\* badge, had no cache entry written by its work item, and is neither
\* queued again nor sent again.
C7_FailureHandling ==
  \A e \in failed :
    /\ tag[e] = "error"
    /\ badge[e] = "none"
    /\ e \notin wrote
    /\ ~InQueue(e)
    /\ ~InFlight(e)
    /\ pushed[e] = 1
    /\ sent[e] = 1

\* A failed element is still in the document after a later scan.
C7_Witness == \E e \in failed : inDoc[e] /\ timeout = NoTimer

\* C8: the tag of an element goes unseen -> pending -> one terminal value
\* and then stays; no scan extracts, queues or renders a tagged element again.
C8_TagStateMachine ==
  \A e \in Elems :
    /\ \/ tagLog[e] = <<>> /\ tag[e] = ""
       \/ tagLog[e] = <<"pending">> /\ tag[e] = "pending"
       \/ \E t \in TerminalTags : tagLog[e] = <<"pending", t>> /\ tag[e] = t
    /\ pushed[e] <= 1
    /\ sent[e] <= 1

\* A scan has run over an element that was complete already.
C8_Witness ==
  \E e \in Elems : inDoc[e] /\ tag[e] = "complete" /\ timeout = NoTimer

\* C9 as stated: every pending element eventually gets a terminal tag.
C9_PendingTransient ==
  \A e \in Elems : (tag[e] = "pending") ~> (tag[e] \in TerminalTags)

\* C9 amended: every pending element eventually gets a terminal tag or has
\* its work item dropped at dequeue (it had left the document), and a
\* dropped element keeps the pending tag.  Tags and drops are final, so the
\* first part says: again and again, every pending element is a dropped one.
C9_PendingSettlesOrDropped ==
  /\ []<>(\A e \in Elems : tag[e] = "pending" => Discarded(e))
  /\ [](\A e \in Elems : Discarded(e) => tag[e] = "pending")

\* One element was dropped and stays pending, another got its result.
C9_Witness ==
  \E a, b \in Elems : Discarded(a) /\ tag[a] = "pending" /\ tag[b] \in {"complete", "error"}

\* C10: a scanned element without a text node is tagged no-text, one whose
\* trimmed text has fewer than 20 characters is tagged too-short; neither
\* is queued, looked up in the cache, written to it, or given a badge.
C10_Unclassifiable ==
  \A e \in Elems :
    LET noText == ~content[e].node
        tooShort == content[e].node
                      /\ Len(Trim(content[e].innerText)) < MIN_TEXT_LENGTH
    IN  /\ (tagLog[e] # <<>> /\ noText) => tag[e] = "no-text"
        /\ (tagLog[e] # <<>> /\ tooShort) => tag[e] = "too-short"
        /\ tag[e] = "no-text" => noText
        /\ tag[e] = "too-short" => tooShort
        /\ (noText \/ tooShort)
             => /\ pushed[e] = 0
                /\ sent[e] = 0
                /\ e \notin lookedUp
                /\ e \notin wrote
                /\ e \notin rendered
                /\ badge[e] = "none"
        /\ (timeout = NoTimer /\ inDoc[e]) => tag[e] # ""

\* Both kinds have been scanned.
C10_Witness ==
  \E a, b \in Elems : tag[a] = "no-text" /\ tag[b] = "too-short"

\* C11: when a scan takes up an untagged element with long-enough text, a
\* cache hit renders the cached result at once and tags the element cached,
\* with no work item and no request; a miss tags it pending and appends
\* exactly one work item for it.
C11_HitOrMiss ==
  [][\A e \in Elems :
       (tag[e] = "" /\ tag'[e] # "" /\ LongText(e))
         => LET id == PostIds[Trim(content[e].innerText)]
            IN  IF id \in DOMAIN analyzedPosts
                THEN /\ tag'[e] = "cached"
                     /\ badge'[e] = analyzedPosts[id].likelihood
                     /\ pushed'[e] = 0
                     /\ sent'[e] = 0
                     /\ ~InQueue(e)'
                     /\ ~InFlight(e)'
                ELSE /\ tag'[e] = "pending"
                     /\ pushed'[e] = 1
                     /\ (IF InQueue(e)' THEN 1 ELSE 0)
                          + (IF InFlight(e)' THEN 1 ELSE 0) = 1
                     /\ Cardinality({i \in 1..Len(analysisQueue') :
                                       analysisQueue'[i].tweet = e}) <= 1]_vars

\* One element was served from the cache, another is waiting in the queue.
C11_Witness ==
  \E a, b \in Elems :
    /\ tag[a] = "cached" /\ badge[a] \in Likelihoods /\ pushed[a] = 0
    /\ tag[b] = "pending" /\ InQueue(b)

\* C17: a cache entry is never evicted or invalidated: once a result has
\* been put under an identifier, the cache returns that result for the rest
\* of the page session.
C17_EntryNeverChanges ==
  [][\A id \in DOMAIN analyzedPosts :
       /\ id \in DOMAIN analyzedPosts'
       /\ analyzedPosts'[id] = analyzedPosts[id]]_vars

\* C20: each element is referenced by at most one queued work item, a
\* queued element is tagged pending, and an element gives rise to at most
\* one work item and at most one request over its lifetime.
C20_QueueInvariant ==
  \A e \in Elems :
    /\ Cardinality({i \in 1..Len(analysisQueue) :
                      analysisQueue[i].tweet = e}) <= 1
    /\ (\E i \in 1..Len(analysisQueue) : analysisQueue[i].tweet = e)
         => tag[e] = "pending"
    /\ pushed[e] <= 1
    /\ sent[e] <= 1
    /\ sent[e] <= pushed[e]

\* One element has had its only request answered and is in the document,
\* while another waits in the queue with its single work item.
C20_Witness ==
  \E a, b \in Elems :
    /\ a # b
    /\ pushed[a] = 1 /\ sent[a] = 1 /\ tag[a] \in {"complete", "error"}
    /\ inDoc[a]
    /\ pushed[b] = 1 /\ sent[b] = 0
    /\ \E i \in 1..Len(analysisQueue) : analysisQueue[i].tweet = b

\* A step in which processTweets ran from a timer: the referenced timer was
\* consumed, an unreferenced one was, or an untagged element got its tag.
ScanStep ==
  \/ timeout = 0 /\ timeout' = NoTimer
  \/ Len(orphans') < Len(orphans)
  \/ \E e \in Elems : tag[e] = "" /\ tag'[e] # ""

\* C15: the feed watcher is a trailing debounce. At most one scan timer is
\* pending; after a node-adding mutation the timer is pending with exactly
\* what is left of the 200 ms quiet period, so every such mutation restarts
\* it; a scan runs only from the referenced timer and only after 200 ms
\* without added nodes; a mutation that removes nodes leaves the timer as it
\* is; and a pending timer always ends in a scan or is restarted.
C15_TrailingDebounce ==
  /\ [](orphans = <<>>)
  /\ [](sinceAdd < DEBOUNCE_DELAY => timeout = DEBOUNCE_DELAY - sinceAdd)
  /\ [][ScanStep => timeout = 0 /\ sinceAdd >= DEBOUNCE_DELAY]_vars
  /\ [][(\E e \in Elems : ~inDoc[e] /\ inDoc'[e])
          => timeout' = DEBOUNCE_DELAY]_vars
  /\ [][(\E e \in Elems : inDoc[e] /\ ~inDoc'[e])
          => timeout' = timeout]_vars
  /\ []<>(timeout = NoTimer \/ sinceAdd = 0)

\* The timer has just been restarted by added nodes while one element
\* waits in the queue and another has yet to be scanned.
C15_Witness ==
  /\ timeout = DEBOUNCE_DELAY
  /\ sinceAdd = 0
  /\ \E e \in Elems : inDoc[e] /\ tag[e] = "pending" /\ badge[e] = "none"
  /\ \E e \in Elems : inDoc[e] /\ tag[e] = ""

\* C16: each element carries at most one badge: a loading badge only while
\* its request is outstanding, a result badge only when tagged cached or
\* complete, none when tagged error, too-short or no-text; a badge is never
\* injected next to an older one.
C16_OneBadge ==
  \A e \in Elems :
    /\ stale[e] = 0
    /\ badge[e] = "loading"
         => \E k \in 1..Len(loops) :
              loops[k].pc = "sendMessage" /\ loops[k].item.tweet = e
    /\ badge[e] \in Likelihoods => tag[e] \in {"cached", "complete"}
    /\ tag[e] \in {"error", "too-short", "no-text"} => badge[e] = "none"

\* A loading badge was replaced by a result badge on one element and taken
\* away after a failure on another, while a third has a badge from the cache.
C16_Witness ==
  \E a, b \in Elems :
    /\ tag[a] = "complete" /\ badge[a] \in Likelihoods /\ stale[a] = 0
    /\ tag[b] = "error" /\ badge[b] = "none" /\ b \in rendered

\* C18: when the response arrives for an element that has left the
\* document, the result is written to the cache and nothing is added to the
\* live document for it: no tooltip under document.body, no added node for
\* the observer.
C18_NothingAddedForDetached ==
  [][\A e \in Elems :
       (/\ \E k \in 1..Len(loops) :
              loops[k].pc = "sendMessage" /\ loops[k].item.tweet = e
        /\ ~inDoc[e]
        /\ e \in wrote')
         => /\ tooltips'[e] = tooltips[e]
            /\ sinceAdd' = sinceAdd]_vars

\* C12: a handler that read the switch as off returns 'Extension disabled',
\* one that read it as on (or unset) with no key returns 'No API key
\* configured'; in both cases no request starts, and the rate-limit
\* timestamp and the store, stats included, stay as they are.
C12_ConfigShortCircuit ==
  [][\A h \in Handlers :
       (handlers[h].pc = "getSettings" /\ handlers'[h].pc # "getSettings")
         => LET got == handlers[h].got
                disabled == "enabled" \in DOMAIN got /\ got.enabled = FALSE
                noKey == "apiKey" \notin DOMAIN got \/ got.apiKey = ""
                message == IF disabled THEN "Extension disabled"
                           ELSE "No API key configured"
            IN  (disabled \/ noKey)
                  => /\ handlers'[h].pc = "done"
                     /\ handlers'[h].result = [error |-> message]
                     /\ sinceRequest' = sinceRequest
                     /\ storage' = storage
                     /\ returned' = returned
                     /\ \A g \in Handlers :
                          handlers'[g].pc = "fetch" => handlers[g].pc = "fetch"]_vars

\* Both errors have been returned, the disabled one with no key stored, while
\* the stats of an earlier analysis are in the store.
C12_Witness ==
  /\ "stats" \in DOMAIN storage
  /\ "apiKey" \in DOMAIN storage /\ storage.apiKey = ""
  /\ \E h, g \in Handlers :
       /\ handlers[h].pc = "done"
       /\ handlers[h].result = [error |-> "Extension disabled"]
       /\ handlers[g].pc = "done"
       /\ handlers[g].result = [error |-> "No API key configured"]

\* C14: whenever no handler is at work, totalAnalyzed equals the number of
\* classification results returned and each label counter the number of
\* results with that label.
C14_StatsMatchResults ==
  (\A h \in Handlers : handlers[h].pc \in {"idle", "done"})
    => LET stats == getStats(storage)
       IN  /\ stats.totalAnalyzed = SumUpTo([i \in 1..4 |->
                  returned[<<"low", "medium", "high", "certain">>[i]]], 4)
           /\ \A l \in Likelihoods : stats[l] = returned[l]

\* C19: a request to the classification client starts only when at least
\* MIN_REQUEST_INTERVAL ms have passed since the previous one started.
C19_RequestsSpaced ==
  [][\A h \in Handlers :
       (handlers[h].pc # "fetch" /\ handlers'[h].pc = "fetch")
         => sinceRequest >= MIN_REQUEST_INTERVAL]_vars

\* C13: when the handler of the page's request has read the switch as off,
\* it returns 'Extension disabled' without starting a request to the
\* client, and the post it was sent for has never been in the analysis
\* queue.
C13_DisabledBypassesQueue ==
  [][\A h \in Handlers :
       (/\ handlers[h].from = 1
        /\ handlers[h].pc = "getSettings"
        /\ handlers'[h].pc # "getSettings"
        /\ "enabled" \in DOMAIN handlers[h].got
        /\ handlers[h].got.enabled = FALSE)
         => /\ handlers'[h].pc = "done"
            /\ handlers'[h].result = [error |-> "Extension disabled"]
            /\ sinceRequest' = sinceRequest
            /\ \A e \in Elems : InFlight(e) => pushed[e] = 0]_vars

====
